---- MODULE Spec2Model ----
(***************************************************************************)
(* Model of Spack's package directives (lib/spack/spack/directives.py)     *)
(* and dependency metadata (lib/spack/spack/dependency.py).                *)
(*                                                                         *)
(* Python values are records with a kind tag k, so that isinstance tests   *)
(* of the code can be modelled:                                            *)
(*   None            [k |-> "None"]                                        *)
(*   a str           [k |-> "str",   s |-> the string]                     *)
(*   a list          [k |-> "list",  items |-> sequence of strings]        *)
(*   a tuple         [k |-> "tuple", items |-> sequence of strings]        *)
(*   a set           [k |-> "set",   items |-> its iteration order]        *)
(*   the builtin all [k |-> "builtin_all"]                                 *)
(*   a Spec          [k |-> "Spec",  name, ver]                            *)
(***************************************************************************)
EXTENDS Integers, Sequences, FiniteSets, TLC

VARIABLES
    queue,      \* DirectiveMetaMixin._directives_to_be_executed (closure ids)
    closures,   \* every closure a directive call has returned, by identity
    types,      \* the classes the metaclass has created, in creation order
    body,       \* the class body being evaluated: the number of class
                \* statements left so far, when no class statement is nested
    nest,       \* the class bodies suspended by a nested class statement,
                \* outermost first
    optimize,   \* whether the interpreter runs with -O (assert statements off)
    cd_in,      \* argument of the canonical_deptype call under study
    cd_out,     \* its outcome, or NotCalled
    arg,        \* the directive call under study, where one call is singled out
    objs,       \* Dependency objects, by identity
    heap,       \* the Python lists those objects' patches dicts refer to
    hist        \* the merge calls made on objs so far, oldest first

\* What the engine's actions leave alone.
canon_vars == <<cd_in, cd_out>>

merge_vars == <<objs, heap, hist>>

vars == <<queue, closures, types, body, nest, optimize, cd_in, cd_out, arg, objs, heap, hist>>

\* ------------------------------------------------------------------ bounds
MaxLen == 3      \* longest deptype collection passed to canonical_deptype
MaxCalls == 3    \* directive calls that return a closure, per behaviour
MaxBodies == 4   \* class statements begun, per behaviour
MaxBases == 2    \* bases named by one class statement
MaxDepCalls == 2 \* as MaxCalls, under SpecDeps
MaxDepBodies == 2 \* as MaxBodies, under SpecDeps
MaxPath == 3     \* components of a resource destination
MaxResBodies == 2 \* as MaxBodies, under SpecRes
MaxExtCalls == 2 \* as MaxCalls, under SpecExt
MaxExtBodies == 3 \* as MaxBodies, under SpecExt
MaxVerCalls == 2 \* as MaxCalls, under SpecVer
MaxVerBodies == 3 \* as MaxBodies, under SpecVer
MaxVarBodies == 2 \* as MaxBodies, under SpecVar
MaxObjs == 3     \* Dependency objects constructed, under SpecMerge
MaxPatches == 3  \* patches declared on them
MaxMerges == 2   \* merge calls made
MaxPatchCalls == 3 \* as MaxCalls, under SpecPatch
MaxPatchBodies == 2 \* as MaxBodies, under SpecPatch
MaxFactCalls == 2 \* as MaxCalls, under SpecFacts
MaxFactBodies == 3 \* as MaxBodies, under SpecFacts
MaxNestCalls == 3 \* as MaxCalls, under SpecNest
MaxNestBodies == 3 \* as MaxBodies, under SpecNest
MaxNest == 1     \* class statements one inside the other, beyond the first

\* ------------------------------------------------------------ Python values
PyNone == [k |-> "None", s |-> "", items |-> <<>>]
PyStr(x) == [k |-> "str", s |-> x, items |-> <<>>]
PyList(xs) == [k |-> "list", s |-> "", items |-> xs]
PyTuple(xs) == [k |-> "tuple", s |-> "", items |-> xs]
PySet(xs) == [k |-> "set", s |-> "", items |-> xs]
PyAll == [k |-> "builtin_all", s |-> "", items |-> <<>>]

Returned(v) == [raised |-> "", value |-> v]
Raised(e, v) == [raised |-> e, value |-> v]

SeqToSet(xs) == {xs[i] : i \in DOMAIN xs}

\* Python's ordering of the strings the model uses ('' < 'bogus' < 'build'
\* < 'link' < 'run').
StrRank(x) == CASE x = "" -> 0 [] x = "bogus" -> 1 [] x = "build" -> 2 [] x = "link" -> 3 [] OTHER -> 4

RECURSIVE Insert(_, _)
Insert(x, xs) ==
    IF xs = <<>> THEN <<x>>
    ELSE IF StrRank(x) <= StrRank(Head(xs)) THEN <<x>> \o xs
    ELSE <<Head(xs)>> \o Insert(x, Tail(xs))

\* sorted(xs): every element kept, duplicates included.
RECURSIVE Sorted(_)
Sorted(xs) == IF xs = <<>> THEN <<>> ELSE Insert(Head(xs), Sorted(Tail(xs)))

\* bool(x) of a str
Truthy(x) == x # ""

\* ------------------------------------------------------------ dependency.py
all_deptypes == <<"build", "link", "run">>

default_deptype == <<"build", "link">>

\* next((d for d in deptype if d not in all_deptypes), None); None is PyNone
RECURSIVE FirstInvalid(_)
FirstInvalid(xs) ==
    IF xs = <<>> THEN PyNone
    ELSE IF Head(xs) \notin SeqToSet(all_deptypes) THEN PyStr(Head(xs))
    ELSE FirstInvalid(Tail(xs))

canonical_deptype(deptype) ==
    IF deptype.k \in {"None", "builtin_all"} \/ (deptype.k = "str" /\ deptype.s = "all")
    THEN Returned(PyTuple(all_deptypes))
    ELSE IF deptype.k = "str"
    THEN IF deptype.s \notin SeqToSet(all_deptypes)
         THEN Raised("ValueError", deptype)
         ELSE Returned(PyTuple(<<deptype.s>>))
    ELSE IF deptype.k \in {"tuple", "list"}
    THEN LET invalid == FirstInvalid(deptype.items)
         IN  IF invalid.k = "str" /\ Truthy(invalid.s)
             THEN Raised("ValueError", invalid)
             ELSE Returned(PyTuple(Sorted(deptype.items)))
    ELSE Returned(deptype)

\* ------------------------------------------------- spack.spec (collaborator)
\* A spec string is written [name, ver]: a package name and a version
\* constraint, 0 when the string gives none.  SpecParse is Spec(string).
SpecParse(str) == [k |-> "Spec", s |-> "", items |-> <<>>, name |-> str.name, ver |-> str.ver]

\* `when`/type arguments that are Python singletons rather than strings.
NoneTok == "<None>"
TrueTok == "<True>"
FalseTok == "<False>"

\* parse_anonymous_spec(spec_like, pkg_name): the condition is anchored on the
\* package; the bare package name is the condition that always holds.
parse_anonymous_spec(spec_like, pkg_name) ==
    [name |-> pkg_name, c |-> IF spec_like = pkg_name THEN "" ELSE spec_like]

\* Spec.constrain(other): narrows, or fails when the versions exclude each other.
constrain(self, other) ==
    IF self.ver # 0 /\ other.ver # 0 /\ self.ver # other.ver
    THEN Raised("UnsatisfiableSpecError", self)
    ELSE Returned([self EXCEPT !.ver = IF self.ver = 0 THEN other.ver ELSE self.ver])

\* re.match(spack.spec.identifier_re, name)
identifier_match(name) == name \notin {"", "-bad"}

\* ------------------------------------------------------------------- dicts
EmptyMap == [x \in {} |-> {}]

Put(m, key, v) == [x \in (DOMAIN m) \cup {key} |-> IF x = key THEN v ELSE m[x]]

\* dict.setdefault(key, default), the dict afterwards
SetDefault(m, key, v) == IF key \in DOMAIN m THEN m ELSE Put(m, key, v)

\* dict.get(key, default)
Get(m, key, default) == IF key \in DOMAIN m THEN m[key] ELSE default

\* the dict after dict.pop(key, default)
Without(m, key) == [x \in (DOMAIN m) \ {key} |-> m[x]]

\* ------------------------------------------------- dependency.py, Dependency
\* Values with a copy() method among those the model passes around.
HasCopy(v) == v.k \in {"Spec", "set"}

Dependency(pkg, spec, type) ==
    IF ~optimize /\ spec.k # "Spec" THEN Raised("AssertionError", PyNone)
    ELSE IF ~HasCopy(spec) THEN Raised("AttributeError", PyNone)
    ELSE Returned([pkg |-> pkg, spec |-> spec, patches |-> EmptyMap,
                   type |-> IF type.k = "None" THEN SeqToSet(default_deptype)
                            ELSE SeqToSet(type.items)])

\* The patches dict of a Dependency maps a condition to a list; the model
\* keeps the lists in heap and the dict holds their indices, so that two
\* dicts can refer to one list.
ListOf(h, d, cond) == IF cond \in DOMAIN d.patches THEN h[d.patches[cond]] ELSE <<>>

\* A change of merge_lists: other's patches are put before self's.
merge_lists_other_first(h, self, other) ==
    [l \in DOMAIN h |->
        IF \E cond \in (DOMAIN other.patches) \cap (DOMAIN self.patches) : self.patches[cond] = l
        THEN LET cond == CHOOSE c \in (DOMAIN other.patches) \cap (DOMAIN self.patches) :
                             self.patches[c] = l
             IN  h[other.patches[cond]] \o h[l]
        ELSE h[l]]

\* merge, lines 128-133: the lists after the loop over other.patches.  Each
\* list is referred to under one condition only, so the iterations do not
\* meet; list.extend of a list with itself appends what it held before.
merge_lists(h, self, other) ==
    [l \in DOMAIN h |->
        IF \E cond \in (DOMAIN other.patches) \cap (DOMAIN self.patches) : self.patches[cond] = l
        THEN LET cond == CHOOSE c \in (DOMAIN other.patches) \cap (DOMAIN self.patches) :
                             self.patches[c] = l
             IN  h[l] \o h[other.patches[cond]]
        ELSE h[l]]

\* and self.patches after it
merge_patches(self, other) ==
    [cond \in (DOMAIN self.patches) \cup (DOMAIN other.patches) |->
        IF cond \in DOMAIN self.patches THEN self.patches[cond] ELSE other.patches[cond]]

\* Dependency.merge(self, other): self and the lists afterwards, or the error
\* of constrain, raised before anything was changed.
Dependency_merge(h, self, other) ==
    LET c == constrain(self.spec, other.spec)
    IN  IF c.raised # "" THEN Raised(c.raised, [self |-> self, heap |-> h])
        ELSE Returned([self |-> [self EXCEPT !.spec = c.value,
                                             !.type = @ \cup other.type,
                                             !.patches = merge_patches(self, other)],
                       heap |-> merge_lists(h, self, other)])

\* ------------------------------------------------------------ the directives
Fail(pkg, e) == [pkg EXCEPT !.raised = e]

\* A change of depends_on_itself and of provides_itself: the test is left out.
no_self_test(pkg, other_spec) == FALSE

\* pkg.name == dep_spec.name
depends_on_itself(pkg, dep_spec) == pkg.name = dep_spec.name

_depends_on(pkg, spec, when, type) ==
    IF when = FalseTok THEN pkg
    ELSE
    LET when_spec == parse_anonymous_spec(
                         IF when \in {NoneTok, TrueTok} THEN pkg.name ELSE when, pkg.name)
        dep_spec == SpecParse(spec)
    IN  IF depends_on_itself(pkg, dep_spec) THEN Fail(pkg, "CircularReferenceError")
        ELSE
        LET t == IF type.k = "None" THEN Returned(PyTuple(default_deptype))
                 ELSE canonical_deptype(type)
        IN  IF t.raised # "" THEN Fail(pkg, t.raised)
            ELSE
            LET deps == SetDefault(pkg.dependencies, dep_spec.name, EmptyMap)
                conditions == deps[dep_spec.name]
                touched == [pkg EXCEPT !.dependencies = deps]
            IN  IF when_spec \notin DOMAIN conditions
                THEN LET d == Dependency(dep_spec, t.value, PyNone)
                     IN  IF d.raised # "" THEN Fail(touched, d.raised)
                         ELSE [pkg EXCEPT !.dependencies =
                                   Put(deps, dep_spec.name, Put(conditions, when_spec, d.value))]
                ELSE LET dependency == conditions[when_spec]
                         c == constrain(dependency.spec, dep_spec)
                     IN  IF c.raised # "" THEN Fail(touched, c.raised)
                         ELSE [pkg EXCEPT !.dependencies =
                                   Put(deps, dep_spec.name, Put(conditions, when_spec,
                                       [dependency EXCEPT !.spec = c.value,
                                                          !.type = @ \cup SeqToSet(t.value.items)]))]

_execute_depends_on(pkg, c) == _depends_on(pkg, c.spec, c.when, c.type)

_execute_conflicts(pkg, c) ==
    LET condition == IF c.when = NoneTok THEN pkg.name ELSE c.when
        when_spec == parse_anonymous_spec(condition, pkg.name)
        when_spec_list == IF c.conflict_spec \in DOMAIN pkg.conflicts
                          THEN pkg.conflicts[c.conflict_spec] ELSE <<>>
    IN  [pkg EXCEPT !.conflicts =
             Put(@, c.conflict_spec, Append(when_spec_list, <<when_spec, c.msg>>))]

\* pkg.name == provided_spec.name
provides_itself(pkg, provided_spec) == pkg.name = provided_spec.name

RECURSIVE ProvidesLoop(_, _, _)
ProvidesLoop(pkg, specs, provider_spec) ==
    IF specs = <<>> THEN pkg
    ELSE LET provided_spec == SpecParse(Head(specs))
         IN  IF provides_itself(pkg, provided_spec) THEN Fail(pkg, "CircularReferenceError")
             ELSE ProvidesLoop(
                      [pkg EXCEPT !.provided =
                           Put(@, provided_spec,
                               (IF provided_spec \in DOMAIN @ THEN @[provided_spec] ELSE {})
                                   \cup {provider_spec})],
                      Tail(specs), provider_spec)

_execute_provides(pkg, c) ==
    LET spec_string == IF c.when = NoneTok THEN pkg.name ELSE c.when
        provider_spec == parse_anonymous_spec(spec_string, pkg.name)
    IN  ProvidesLoop(pkg, c.specs, provider_spec)

\* Patch.create(pkg, url_or_filename, level)
PatchCreate(pkg, url_or_filename, level) == [path_or_url |-> url_or_filename, level |-> level]

\* A change of _execute_patch: the patch is put in front of the ones already
\* under its condition.
_execute_patch_in_front(pkg, c) ==
    LET constraint == IF c.when = NoneTok THEN pkg.name ELSE c.when
        when_spec == parse_anonymous_spec(constraint, pkg.name)
        cur_patches == IF when_spec \in DOMAIN pkg.patches THEN pkg.patches[when_spec] ELSE <<>>
    IN  [pkg EXCEPT !.patches =
             Put(@, when_spec, <<PatchCreate(pkg, c.url_or_filename, c.level)>> \o cur_patches)]

_execute_patch(pkg, c) ==
    LET constraint == IF c.when = NoneTok THEN pkg.name ELSE c.when
        when_spec == parse_anonymous_spec(constraint, pkg.name)
        cur_patches == IF when_spec \in DOMAIN pkg.patches THEN pkg.patches[when_spec] ELSE <<>>
    IN  [pkg EXCEPT !.patches =
             Put(@, when_spec, Append(cur_patches, PatchCreate(pkg, c.url_or_filename, c.level)))]

_execute_variant(pkg, c) ==
    IF ~identifier_match(c.name) THEN Fail(pkg, "DirectiveError")
    ELSE [pkg EXCEPT !.variants =
              Put(@, c.name, [name |-> c.name, default |-> c.default, values |-> c.values])]

\* Version(ver)
Version(ver) == [k |-> "Version", s |-> ver]

\* A closure's kwargs dict is one object: what a package stores of it is a
\* reference to the dict of closure c.id, read through closures.
KwargsOf(c) == [ref |-> c.id]

\* The kwargs of a version closure once the closure has run.
version_kwargs(c) ==
    IF c.checksum \notin {NoneTok, ""} THEN Put(c.kwargs, "md5", c.checksum) ELSE c.kwargs

\* A change of _execute_version: an identifier already present is kept.
_execute_version_first_wins(pkg, c) ==
    IF Version(c.ver) \in DOMAIN pkg.versions THEN pkg
    ELSE [pkg EXCEPT !.versions = Put(@, Version(c.ver), KwargsOf(c))]

_execute_version(pkg, c) == [pkg EXCEPT !.versions = Put(@, Version(c.ver), KwargsOf(c))]

_execute_extends(pkg, c) ==
    LET when == Get(c.kwargs, "when", pkg.name)
        p == _depends_on(pkg, c.spec, when, PyNone)
    IN  IF p.raised # "" THEN p
        ELSE [p EXCEPT !.extendees = Put(@, c.spec, <<SpecParse(c.spec), KwargsOf(c)>>)]

\* ------------------------------------------------------------ paths (os.path)
\* A path string is [abs, parts]: whether it starts with '/', and its
\* components between slashes.  '' is [abs |-> FALSE, parts |-> <<>>].
Path(abs, parts) == [abs |-> abs, parts |-> parts]

isabs(path) == path.abs

\* join_path(a, b) is os.path.join(a, b)
join_path(a, b) == IF b.abs THEN b ELSE Path(a.abs, a.parts \o b.parts)

RECURSIVE new_comps(_, _, _)
new_comps(comps, acc, initial_slashes) ==
    IF comps = <<>> THEN acc
    ELSE LET comp == Head(comps)
         IN  IF comp \in {"", "."} THEN new_comps(Tail(comps), acc, initial_slashes)
             ELSE IF \/ comp # ".."
                     \/ (~initial_slashes /\ acc = <<>>)
                     \/ (acc # <<>> /\ acc[Len(acc)] = "..")
             THEN new_comps(Tail(comps), Append(acc, comp), initial_slashes)
             ELSE IF acc # <<>>
             THEN new_comps(Tail(comps), SubSeq(acc, 1, Len(acc) - 1), initial_slashes)
             ELSE new_comps(Tail(comps), acc, initial_slashes)

normpath(path) ==
    LET comps == new_comps(path.parts, <<>>, path.abs)
    IN  IF comps = <<>> /\ ~path.abs THEN Path(FALSE, <<".">>) ELSE Path(path.abs, comps)

test_path == Path(FALSE, <<"stage_folder_root">>)

\* 'stage_folder_root' in component, for the component names the model uses
HasRootName(comp) == comp \in {"stage_folder_root", "stage_folder_root_old"}

\* test_path in normalized_destination: a substring test on the path string;
\* test_path holds no slash, so it occurs within one component.
test_path_in(normalized_destination) ==
    \E i \in DOMAIN normalized_destination.parts : HasRootName(normalized_destination.parts[i])

\* from_kwargs(**kwargs): the fetch strategy chosen from the keywords
from_kwargs(kwargs) == [fetcher |-> Get(kwargs, "url", "")]

Resource(name, fetcher, destination, placement) ==
    [name |-> name, fetcher |-> fetcher, destination |-> destination, placement |-> placement]

_execute_resource(pkg, c) ==
    LET when == Get(c.kwargs, "when", pkg.name)
        destination == Get(c.kwargs, "destination", Path(FALSE, <<>>))
        placement == Get(c.kwargs, "placement", NoneTok)
    IN  IF isabs(destination) THEN Fail(pkg, "RuntimeError")
        ELSE
        LET normalized_destination == normpath(join_path(test_path, destination))
        IN  IF ~test_path_in(normalized_destination) THEN Fail(pkg, "RuntimeError")
            ELSE
            LET when_spec == parse_anonymous_spec(when, pkg.name)
                resources == Get(pkg.resources, when_spec, <<>>)
                name == Get(c.kwargs, "name", NoneTok)
                fetcher == from_kwargs(c.kwargs)
            IN  [pkg EXCEPT !.resources =
                     Put(@, when_spec, Append(resources, Resource(name, fetcher, destination, placement)))]

\* --------------------------------------------- declaration time: the closures
\* A directive call is [directive |-> name, ...arguments]; the decorated
\* function returns the closure (a record of what it captured) or raises.
reserved_names == {"patches"}

PyBool(x) == [k |-> "bool", s |-> x, items |-> <<>>]
PyLambda == [k |-> "function", s |-> "lambda x: True", items |-> <<>>]
TrueFalse == [k |-> "tuple", s |-> "", items |-> <<PyBool("True"), PyBool("False")>>]

\* str.upper() on the strings the model uses
Upper(x) == CASE x \in {"true", "True", "TRUE"} -> "TRUE"
              [] x \in {"false", "False", "FALSE"} -> "FALSE"
              [] OTHER -> x

\* A change of variant: the default is not looked at when values is omitted.
variant_default_not_inspected(call) ==
    IF call.name \in reserved_names THEN Raised("ValueError", PyNone)
    ELSE
    LET values == IF call.values.k = "None" THEN PyLambda ELSE call.values
        default == IF call.default.k = "None"
                   THEN IF values = TrueFalse THEN PyBool("False") ELSE PyStr("")
                   ELSE call.default
    IN  Returned([kind |-> "variant", name |-> call.name, default |-> default, values |-> values])

variant(call) ==
    IF call.name \in reserved_names THEN Raised("ValueError", PyNone)
    ELSE
    LET values == IF call.values.k = "None"
                  THEN IF call.default.k = "bool"
                          \/ (call.default.k = "str" /\ Upper(call.default.s) \in {"TRUE", "FALSE"})
                       THEN TrueFalse ELSE PyLambda
                  ELSE call.values
        default == IF call.default.k = "None"
                   THEN IF values = TrueFalse THEN PyBool("False") ELSE PyStr("")
                   ELSE call.default
    IN  Returned([kind |-> "variant", name |-> call.name, default |-> default, values |-> values])

conflicts(call) ==
    Returned([kind |-> "conflicts", conflict_spec |-> call.conflict_spec,
              when |-> call.when, msg |-> call.msg])

\* A change of depends_on: when=False is not passed on to the action.
depends_on_loses_false(call) ==
    Returned([kind |-> "depends_on", spec |-> call.spec,
              when |-> IF call.when = FalseTok THEN NoneTok ELSE call.when,
              type |-> call.type])

depends_on(call) ==
    Returned([kind |-> "depends_on", spec |-> call.spec, when |-> call.when, type |-> call.type])

provides(call) == Returned([kind |-> "provides", specs |-> call.specs, when |-> call.when])

patch(call) ==
    Returned([kind |-> "patch", url_or_filename |-> call.url_or_filename,
              level |-> call.level, when |-> call.when])

version(call) ==
    Returned([kind |-> "version", ver |-> call.ver, checksum |-> call.checksum,
              kwargs |-> call.kwargs])

extends(call) == Returned([kind |-> "extends", spec |-> call.spec, kwargs |-> call.kwargs])

\* A change of resource: the destination is checked by the directive call.
resource_checked_at_call(call) ==
    LET destination == Get(call.kwargs, "destination", Path(FALSE, <<>>))
    IN  IF isabs(destination) \/ ~test_path_in(normpath(join_path(test_path, destination)))
        THEN Raised("RuntimeError", PyNone)
        ELSE Returned([kind |-> "resource", kwargs |-> call.kwargs])

resource(call) == Returned([kind |-> "resource", kwargs |-> call.kwargs])

decorated_function(call) ==
    CASE call.directive = "variant" -> variant(call)
      [] call.directive = "version" -> version(call)
      [] call.directive = "extends" -> extends(call)
      [] call.directive = "resource" -> resource(call)
      [] call.directive = "conflicts" -> conflicts(call)
      [] call.directive = "depends_on" -> depends_on(call)
      [] call.directive = "provides" -> provides(call)
      [] call.directive = "patch" -> patch(call)

\* The closure once it has been called: what the call did to the kwargs dict
\* the closure holds (kwargs.pop('when', ...) in _execute_extends,
\* kwargs['md5'] = checksum in _execute_version).
\* A change of after_call: a version closure called again takes back the
\* checksum it stored.
after_call_takes_back(c) ==
    CASE c.kind = "extends" -> [c EXCEPT !.kwargs = Without(@, "when")]
      [] c.kind = "version" ->
            [c EXCEPT !.kwargs = IF "md5" \in DOMAIN @ THEN Without(@, "md5")
                                 ELSE version_kwargs(c)]
      [] OTHER -> c

after_call(c) ==
    CASE c.kind = "extends" -> [c EXCEPT !.kwargs = Without(@, "when")]
      [] c.kind = "version" -> [c EXCEPT !.kwargs = version_kwargs(c)]
      [] OTHER -> c

\* directive(cls) for a closure of the staging queue or of an action list
Invoke(pkg, c) ==
    CASE c.kind = "variant" -> _execute_variant(pkg, c)
      [] c.kind = "version" -> _execute_version(pkg, c)
      [] c.kind = "extends" -> _execute_extends(pkg, c)
      [] c.kind = "resource" -> _execute_resource(pkg, c)
      [] c.kind = "conflicts" -> _execute_conflicts(pkg, c)
      [] c.kind = "depends_on" -> _execute_depends_on(pkg, c)
      [] c.kind = "provides" -> _execute_provides(pkg, c)
      [] c.kind = "patch" -> _execute_patch(pkg, c)

\* ------------------------------------------------------ llnl.util.lang.dedupe
RECURSIVE dedupe_seen(_, _)
dedupe_seen(sequence, seen) ==
    IF sequence = <<>> THEN <<>>
    ELSE IF Head(sequence) \in seen THEN dedupe_seen(Tail(sequence), seen)
    ELSE <<Head(sequence)>> \o dedupe_seen(Tail(sequence), seen \cup {Head(sequence)})

dedupe(sequence) == dedupe_seen(sequence, {})

\* ------------------------------------------- Python's class creation (C3 MRO)
reversed(xs) == [i \in 1..Len(xs) |-> xs[Len(xs) + 1 - i]]

NonEmpty(lists) == SelectSeq(lists, LAMBDA l : l # <<>>)

InSomeTail(x, lists) == \E i \in DOMAIN lists : x \in SeqToSet(Tail(lists[i]))

RECURSIVE c3_merge(_)
c3_merge(lists) ==
    LET ls == NonEmpty(lists)
        good == {i \in DOMAIN ls : ~InSomeTail(Head(ls[i]), ls)}
    IN  IF ls = <<>> THEN Returned(<<>>)
        ELSE IF good = {} THEN Raised("TypeError", <<>>)
        ELSE LET i == CHOOSE j \in good : \A j2 \in good : j <= j2
                 h == Head(ls[i])
                 rest == c3_merge([n \in DOMAIN ls |->
                                      IF Head(ls[n]) = h THEN Tail(ls[n]) ELSE ls[n]])
             IN  IF rest.raised # "" THEN rest ELSE Returned(<<h>> \o rest.value)

\* The MRO of a new class, as indices into types; self is its own index.
mro(self, bases) ==
    LET r == c3_merge([i \in 1..Len(bases) |-> types[bases[i]].mro] \o <<bases>>)
    IN  IF r.raised # "" THEN r ELSE Returned(<<self>> \o r.value)

\* --------------------------------------------------------- DirectiveMetaMixin
_directive_names == {"versions", "conflicts", "dependencies", "extendees",
                     "provided", "patches", "variants", "resources"}

\* The dicts argument of the @directive decoration of each directive.
directive_dicts(kind) ==
    CASE kind = "version" -> {"versions"}
      [] kind = "conflicts" -> {"conflicts"}
      [] kind = "depends_on" -> {"dependencies"}
      [] kind = "extends" -> {"extendees", "dependencies"}
      [] kind = "provides" -> {"provided"}
      [] kind = "patch" -> {"patches"}
      [] kind = "variant" -> {"variants"}
      [] kind = "resource" -> {"resources"}

RECURSIVE extend_from(_)
extend_from(bases) ==
    IF bases = <<>> THEN <<>>
    ELSE types[Head(bases)].directives \o extend_from(Tail(bases))

\* A change of new_directives: the bases' lists are not de-duplicated.
new_directives_no_dedupe(bases) == extend_from(reversed(bases)) \o queue

\* A change of new_directives: the whole list is de-duplicated, and closures
\* of identical content count as the same action.
RECURSIVE dedupe_by_content(_, _)
dedupe_by_content(sequence, seen) ==
    IF sequence = <<>> THEN <<>>
    ELSE LET c == [closures[Head(sequence)] EXCEPT !.body = 0]
         IN  IF c \in seen THEN dedupe_by_content(Tail(sequence), seen)
             ELSE <<Head(sequence)>> \o dedupe_by_content(Tail(sequence), seen \cup {c})

new_directives_all_by_content(bases) ==
    dedupe_by_content(extend_from(reversed(bases)) \o queue, {})

\* attr_dict['_directives_to_be_executed'] at the end of __new__
new_directives(bases) == dedupe(extend_from(reversed(bases))) \o queue

\* Attribute lookup of a name of _directive_names on a class that has none
\* of its own: the first class of the MRO m that holds the dictionaries
\* (0: none, the lookup raises AttributeError).
RECURSIVE getattr_owner(_)
getattr_owner(m) ==
    IF m = <<>> THEN 0
    ELSE IF types[Head(m)].dicts = Head(m) THEN Head(m)
    ELSE getattr_owner(Tail(m))

\* The dictionaries of c, seen as attributes of t.
with_dicts(t, c) ==
    [t EXCEPT !.versions = c.versions, !.conflicts = c.conflicts,
              !.dependencies = c.dependencies, !.extendees = c.extendees,
              !.provided = c.provided, !.patches = c.patches,
              !.variants = c.variants, !.resources = c.resources]

\* __new__: the class object, before __init__ runs.  body and log are
\* bookkeeping of the model: the class statement that made the class, and the
\* closures __init__ has called on it.  dicts is the class whose dictionaries
\* the names of _directive_names resolve to on this class, and the eight
\* fields are what they resolve to: a class has none of its own until
\* __init__ sets them.
DirectiveMetaMixin_new(bases) ==
    LET m == mro(Len(types) + 1, bases)
        owner == IF m.raised # "" THEN 0 ELSE getattr_owner(Tail(m.value))
        none == [versions |-> EmptyMap, conflicts |-> EmptyMap,
                 dependencies |-> EmptyMap, extendees |-> EmptyMap,
                 provided |-> EmptyMap, patches |-> EmptyMap,
                 variants |-> EmptyMap, resources |-> EmptyMap]
    IN  with_dicts([name |-> "", is_pkg |-> FALSE, bases |-> bases,
                    mro |-> m.value,
                    directives |-> new_directives(bases),
                    raised |-> "", body |-> body, log |-> <<>>, dicts |-> owner]
                   @@ none,
                   IF owner = 0 THEN none ELSE types[owner])

\* A change of execute_directives: after a directive raised, the remaining
\* ones are still called.
RECURSIVE execute_directives_keep_going(_, _)
execute_directives_keep_going(cls, ds) ==
    IF ds = <<>> THEN cls
    ELSE LET r == Invoke([cls EXCEPT !.log = Append(@, Head(ds))],
                          closures[Head(ds)] @@ [id |-> Head(ds)])
         IN  execute_directives_keep_going(r, Tail(ds))

RECURSIVE execute_directives(_, _)
execute_directives(cls, ds) ==
    IF ds = <<>> THEN cls
    ELSE LET r == Invoke([cls EXCEPT !.log = Append(@, Head(ds))],
                          closures[Head(ds)] @@ [id |-> Head(ds)])
         IN  IF r.raised # "" THEN r ELSE execute_directives(r, Tail(ds))

\* A change of setattr_dicts: only a class that finds no dictionaries through
\* its bases is given its own.
setattr_dicts_once(cls) ==
    IF cls.dicts # 0 THEN cls
    ELSE [cls EXCEPT !.dicts = Len(types) + 1,
              !.versions = EmptyMap, !.conflicts = EmptyMap,
              !.dependencies = EmptyMap, !.extendees = EmptyMap,
              !.provided = EmptyMap, !.patches = EmptyMap,
              !.variants = EmptyMap, !.resources = EmptyMap]

\* for d in DirectiveMetaMixin._directive_names: setattr(cls, d, {})
setattr_dicts(cls) ==
    [cls EXCEPT !.dicts = Len(types) + 1,
         !.versions = EmptyMap, !.conflicts = EmptyMap,
         !.dependencies = EmptyMap, !.extendees = EmptyMap,
         !.provided = EmptyMap, !.patches = EmptyMap,
         !.variants = EmptyMap, !.resources = EmptyMap]

\* __init__: pkg_name is the last component of the module's name, in_spack_pkg
\* whether 'spack.pkg' is in it.
DirectiveMetaMixin_init(cls, pkg_name, in_spack_pkg) ==
    IF ~in_spack_pkg THEN cls
    ELSE execute_directives(setattr_dicts([cls EXCEPT !.name = pkg_name, !.is_pkg = TRUE]),
                            cls.directives)

\* ------------------------------------------------------------------ actions
\* Classes a class statement can name as bases: those whose class statement
\* completed.
Usable == {i \in DOMAIN types : types[i].raised = ""}

BaseLists(n) ==
    {bs \in UNION {[1..m -> Usable] : m \in 0..n} :
        \A i, j \in DOMAIN bs : i # j => bs[i] # bs[j]}

\* The class body begun last.
LastBody ==
    CHOOSE b \in {body} \cup SeqToSet(nest)
                 \cup {closures[i].body : i \in DOMAIN closures}
                 \cup {types[i].body : i \in DOMAIN types} :
        /\ body <= b
        /\ \A i \in DOMAIN nest : nest[i] <= b
        /\ \A j \in DOMAIN closures : closures[j].body <= b
        /\ \A j \in DOMAIN types : types[j].body <= b

\* _wrapper: the directive call made in a class body.  A raise leaves the
\* class statement, and the class statements it is nested in (the bodies are
\* abandoned), with the queue as it was.  The
\* fields body and call of a closure are bookkeeping of the model: the class
\* statement it was made in and the call that made it.
\* A change of DirectiveCall (_wrapper): the values are put at the front of
\* the queue.
DirectiveCall_at_front(call) ==
    /\ LET values == decorated_function(call)
       IN  IF values.raised # ""
           THEN /\ body' = LastBody + 1
                /\ nest' = <<>>
                /\ UNCHANGED <<queue, closures>>
           ELSE /\ closures' = Append(closures, values.value @@ [body |-> body, call |-> call])
                /\ queue' = <<Len(closures) + 1>> \o queue
                /\ UNCHANGED <<body, nest>>
    /\ UNCHANGED <<types, optimize, arg, canon_vars, merge_vars>>

DirectiveCall(call) ==
    /\ LET values == decorated_function(call)
       IN  IF values.raised # ""
           THEN /\ body' = LastBody + 1
                /\ nest' = <<>>
                /\ UNCHANGED <<queue, closures>>
           ELSE /\ closures' = Append(closures, values.value @@ [body |-> body, call |-> call])
                /\ queue' = Append(queue, Len(closures) + 1)
                /\ UNCHANGED <<body, nest>>
    /\ UNCHANGED <<types, optimize, arg, canon_vars, merge_vars>>

\* The end of a class body: __new__, then __init__.  When the bases have no
\* consistent MRO, type.__new__ raises after the queue was moved and no class
\* comes to exist.  The closures __init__ called keep what the call did to
\* their kwargs, and the dictionaries __init__ wrote to are seen by every
\* class they are an attribute of.  Evaluation goes on in the body the class
\* statement is nested in, if any.
ClassStatement(pkg_name, in_spack_pkg, bases) ==
    \E cls \in {DirectiveMetaMixin_init(DirectiveMetaMixin_new(bases), pkg_name, in_spack_pkg)} :
    LET created == mro(Len(types) + 1, bases).raised = ""
        seen == [i \in DOMAIN types |->
                    IF types[i].dicts = cls.dicts /\ cls.dicts # 0
                    THEN with_dicts(types[i], cls) ELSE types[i]]
    IN  /\ types' = IF created THEN Append(seen, cls) ELSE types
        /\ closures' = [i \in DOMAIN closures |->
                            IF created /\ i \in SeqToSet(cls.log)
                            THEN after_call(closures[i]) ELSE closures[i]]
        /\ queue' = <<>>
        /\ IF nest = <<>>
           THEN body' = LastBody + 1 /\ UNCHANGED nest
           ELSE body' = nest[Len(nest)] /\ nest' = SubSeq(nest, 1, Len(nest) - 1)
        /\ UNCHANGED <<optimize, arg, canon_vars, merge_vars>>

\* ----------------------------------------------------------- specifications
NotCalled == [raised |-> "not called", value |-> PyNone]

\* No Dependency object is under study.
InitNoMerge ==
    /\ objs = <<>>
    /\ heap = <<>>
    /\ hist = <<>>

InitEngine ==
    /\ queue = <<>>
    /\ nest = <<>>
    /\ closures = <<>>
    /\ types = <<>>
    /\ body = 0
    /\ cd_in = PyNone
    /\ cd_out = NotCalled
    /\ InitNoMerge

\* Spec: the construction engine.  Class bodies call directives; class
\* statements merge the inherited lists with the queue and replay them.
EngineCalls ==
    {[directive |-> "patch", url_or_filename |-> "p1", level |-> 1, when |-> NoneTok],
     [directive |-> "variant", name |-> "-bad", default |-> PyNone, values |-> PyNone],
     [directive |-> "variant", name |-> "patches", default |-> PyNone, values |-> PyNone]}

Init == InitEngine /\ optimize = FALSE /\ arg = PyNone

Declare ==
    /\ body < MaxBodies
    /\ Len(closures) < MaxCalls
    /\ \E call \in EngineCalls : DirectiveCall(call)

Define ==
    /\ body < MaxBodies
    /\ \E in_spack_pkg \in BOOLEAN, bases \in BaseLists(MaxBases) :
           ClassStatement("a", in_spack_pkg, bases)

Next == Declare \/ Define

Spec == Init /\ [][Next]_vars

\* SpecDeps: packages a and b declaring dependencies, virtuals and conflicts.
\* A dependency on b is a self-dependency in package b (also when b inherits
\* it from a); the virtual a is a self-provision in package a.
DepTargets == {[name |-> "b", ver |-> 0]}

DepCalls ==
    {[directive |-> "depends_on", spec |-> t, when |-> w, type |-> ty] :
        t \in DepTargets, w \in {NoneTok, TrueTok, FalseTok, "+x"},
        ty \in {PyNone, PyStr("build"), PyStr("link")}}
    \cup {[directive |-> "provides", specs |-> vs, when |-> w] :
        vs \in {<<[name |-> "mpi", ver |-> 0]>>,
                <<[name |-> "mpi", ver |-> 0], [name |-> "a", ver |-> 0]>>},
        w \in {NoneTok, "+x"}}
    \cup {[directive |-> "conflicts", conflict_spec |-> "%intel", when |-> "+x", msg |-> NoneTok]}

InitDeps == InitEngine /\ optimize \in BOOLEAN /\ arg = PyNone

DeclareDep ==
    /\ body < MaxDepBodies
    /\ Len(closures) < MaxDepCalls
    /\ \E call \in DepCalls : DirectiveCall(call)

DefinePackage ==
    /\ body < MaxDepBodies
    /\ \E pkg_name \in {"a", "b"}, bases \in BaseLists(1) :
           ClassStatement(pkg_name, TRUE, bases)

NextDeps == DeclareDep \/ DefinePackage

SpecDeps == InitDeps /\ [][NextDeps]_vars

\* SpecCanon: one call of canonical_deptype on an argument drawn from the
\* values a caller can pass.
DeptypeStrings == {"build", "link", "run", "bogus", ""}

StringSeqs == UNION {[1..n -> DeptypeStrings] : n \in 0..MaxLen}

CanonInputs ==
    {PyNone, PyAll, PyStr("all")}
    \cup {PyStr(x) : x \in DeptypeStrings}
    \cup {PyList(xs) : xs \in StringSeqs}
    \cup {PyTuple(xs) : xs \in StringSeqs}
    \cup {PySet(xs) : xs \in {ys \in StringSeqs : Cardinality(SeqToSet(ys)) = Len(ys)}}

InitCanon ==
    /\ queue = <<>>
    /\ closures = <<>>
    /\ types = <<>>
    /\ body = 0
    /\ nest = <<>>
    /\ optimize = FALSE
    /\ cd_in \in CanonInputs
    /\ cd_out = NotCalled
    /\ arg = PyNone
    /\ InitNoMerge

Canonicalize ==
    /\ cd_out = NotCalled
    /\ cd_out' = canonical_deptype(cd_in)
    /\ UNCHANGED <<queue, closures, types, body, nest, optimize, cd_in, arg, merge_vars>>

NextCanon == Canonicalize

SpecCanon == InitCanon /\ [][NextCanon]_vars

\* SpecExt: package a (and plain classes) declaring extensions and versioned
\* dependencies on b; subclasses and siblings replay the same closures.
ExtCalls ==
    {[directive |-> "extends", spec |-> t, kwargs |-> kw] :
        t \in {[name |-> "b", ver |-> 0], [name |-> "b", ver |-> 1]},
        kw \in {EmptyMap, [x \in {"when"} |-> "+x"],
                [x \in {"when", "ignore"} |-> IF x = "when" THEN FalseTok ELSE "i"]}}
    \cup {[directive |-> "depends_on", spec |-> [name |-> "b", ver |-> v], when |-> NoneTok,
           type |-> PyNone] : v \in {1, 2}}

InitExt == InitEngine /\ optimize \in BOOLEAN /\ arg = PyNone

DeclareExt ==
    /\ body < MaxExtBodies
    /\ Len(closures) < MaxExtCalls
    /\ \E call \in ExtCalls : DirectiveCall(call)

DefineExt ==
    /\ body < MaxExtBodies
    /\ \E in_spack_pkg \in BOOLEAN, bases \in BaseLists(1) :
           ClassStatement("a", in_spack_pkg, bases)

NextExt == DeclareExt \/ DefineExt

SpecExt == InitExt /\ [][NextExt]_vars

\* SpecVer: package classes declaring versions, the same identifier more than once,
\* with and without a checksum and other metadata.
VersionCalls ==
    {[directive |-> "version", ver |-> v, checksum |-> m[1], kwargs |-> m[2]] :
        v \in {"1.0", "2.0"},
        m \in {<<NoneTok, [x \in {"url"} |-> "u"]>>, <<"abc", EmptyMap>>,
               <<"", [x \in {"md5"} |-> "def"]>>}}

InitVer == InitEngine /\ optimize = FALSE /\ arg = PyNone

DeclareVer ==
    /\ body < MaxVerBodies
    /\ Len(closures) < MaxVerCalls
    /\ \E call \in VersionCalls : DirectiveCall(call)

DefineVer ==
    /\ body < MaxVerBodies
    /\ \E bases \in BaseLists(1) : ClassStatement("a", TRUE, bases)

NextVer == DeclareVer \/ DefineVer

SpecVer == InitVer /\ [][NextVer]_vars

\* SpecVar: one variant directive call, its default and values drawn from the
\* documented kinds (bool, str or nothing; a tuple, a callable or nothing),
\* and the package classes defined after it.
VariantCalls ==
    {[directive |-> "variant", name |-> n, default |-> d, values |-> v] :
        n \in {"foo", "patches"},
        d \in {PyNone, PyBool("True"), PyBool("False")}
                \cup {PyStr(x) : x \in {"true", "True", "FALSE", "x", ""}},
        v \in {PyNone, TrueFalse, [k |-> "function", s |-> "validator", items |-> <<>>],
               [k |-> "tuple", s |-> "", items |-> <<PyStr("a"), PyStr("b")>>]}}

InitVar == InitEngine /\ optimize = FALSE /\ arg \in VariantCalls

DeclareVariant ==
    /\ closures = <<>>
    /\ body < MaxVarBodies
    /\ DirectiveCall(arg)

DefineVar ==
    /\ body < MaxVarBodies
    /\ \E bases \in BaseLists(1) : ClassStatement("a", TRUE, bases)

NextVar == DeclareVariant \/ DefineVar

SpecVar == InitVar /\ [][NextVar]_vars

\* SpecMerge: Dependency objects on package b are constructed, given patches
\* (the patch directive run on a Dependency, which has the name and patches
\* attributes a directive uses) and merged into one another.
DependencyKinds ==
    {<<[name |-> "b", ver |-> 1], PyNone>>, <<[name |-> "b", ver |-> 1], PyTuple(<<"run">>)>>,
     <<[name |-> "b", ver |-> 2], PyNone>>}

InitMerge ==
    /\ queue = <<>>
    /\ closures = <<>>
    /\ types = <<>>
    /\ body = 0
    /\ nest = <<>>
    /\ optimize = FALSE
    /\ cd_in = PyNone
    /\ cd_out = NotCalled
    /\ arg = PyNone
    /\ InitNoMerge

\* Dependency(pkg, spec, type=...)
Construct ==
    /\ Len(objs) < MaxObjs
    /\ \E kind \in DependencyKinds :
           objs' = Append(objs, Dependency("a", SpecParse(kind[1]), kind[2]).value)
    /\ UNCHANGED <<queue, closures, types, body, nest, optimize, arg, canon_vars, heap, hist>>

\* Patches are never removed from a list, so the lists tell how many were
\* declared.
PatchesDeclared == Cardinality(UNION {SeqToSet(heap[l]) : l \in DOMAIN heap})

\* _execute_patch(dependency): the n-th patch declared is the file n.
PatchDependency ==
    /\ PatchesDeclared < MaxPatches
    /\ \E d \in DOMAIN objs, when \in {NoneTok, "+x"} :
           LET pkg == objs[d]
               constraint == IF when = NoneTok THEN pkg.spec.name ELSE when
               when_spec == parse_anonymous_spec(constraint, pkg.spec.name)
               fresh == when_spec \notin DOMAIN pkg.patches
               l == IF fresh THEN Len(heap) + 1 ELSE pkg.patches[when_spec]
               patches_dict == SetDefault(pkg.patches, when_spec, l)
               h == IF fresh THEN Append(heap, <<>>) ELSE heap
           IN  /\ objs' = [objs EXCEPT ![d].patches = patches_dict]
               /\ heap' = [h EXCEPT ![l] = Append(@, PatchCreate(pkg, PatchesDeclared + 1, 1))]
    /\ UNCHANGED <<queue, closures, types, body, nest, optimize, arg, canon_vars, hist>>

Merge ==
    /\ Len(hist) < MaxMerges
    /\ \E self, other \in DOMAIN objs :
           LET r == Dependency_merge(heap, objs[self], objs[other])
           IN  /\ objs' = [objs EXCEPT ![self] = r.value.self]
               /\ heap' = r.value.heap
               /\ hist' = Append(hist, [self |-> self, other |-> other, raised |-> r.raised])
    /\ UNCHANGED <<queue, closures, types, body, nest, optimize, arg, canon_vars>>

NextMerge == Construct \/ PatchDependency \/ Merge

SpecMerge == InitMerge /\ [][NextMerge]_vars

\* SpecRes: one resource directive call, its destination drawn from the paths
\* of up to MaxPath components, and the package classes defined after it.
PathNames == {"..", ".", "sub", "dir", "escape", "stage_folder_root_old"}

Destinations ==
    {Path(abs, parts) : abs \in BOOLEAN, parts \in UNION {[1..n -> PathNames] : n \in 0..MaxPath}}

ResourceKwargs ==
    {[x \in {"name"} |-> "r"] @@ d @@ w :
        d \in {EmptyMap} \cup {[x \in {"destination"} |-> dest] : dest \in Destinations},
        w \in {EmptyMap, [x \in {"when"} |-> "+x"]}}

ResourceCalls == {[directive |-> "resource", kwargs |-> kw] : kw \in ResourceKwargs}

InitRes == InitEngine /\ optimize = FALSE /\ arg \in ResourceCalls

DeclareResource ==
    /\ closures = <<>>
    /\ body < MaxResBodies
    /\ DirectiveCall(arg)

DefineRes ==
    /\ body < MaxResBodies
    /\ \E bases \in BaseLists(1) : ClassStatement("a", TRUE, bases)

NextRes == DeclareResource \/ DefineRes

SpecRes == InitRes /\ [][NextRes]_vars

\* SpecPatch: classes of package a, classes of package b derived from other
\* classes, and classes outside spack.pkg, declaring patches with and without
\* a condition, as lammps does.
PatchCalls ==
    {[directive |-> "patch", url_or_filename |-> u, level |-> 1, when |-> w] :
        u \in {"lib.patch", "660.patch"}, w \in {NoneTok, "@20170901"}}

InitPatch == InitEngine /\ optimize = FALSE /\ arg = PyNone

DeclarePatch ==
    /\ body < MaxPatchBodies
    /\ Len(closures) < MaxPatchCalls
    /\ \E call \in PatchCalls : DirectiveCall(call)

DefinePatch ==
    /\ body < MaxPatchBodies
    /\ \E in_spack_pkg \in BOOLEAN, bases \in BaseLists(1) :
           ClassStatement(IF bases = <<>> THEN "a" ELSE "b", in_spack_pkg, bases)

NextPatch == DeclarePatch \/ DefinePatch

SpecPatch == InitPatch /\ [][NextPatch]_vars

\* SpecFacts: classes of package a, some derived from others, whose bodies
\* call directives of every kind, so that every descriptor field gets entries.
FactCalls ==
    {[directive |-> "version", ver |-> "1.0", checksum |-> "abc", kwargs |-> EmptyMap],
     [directive |-> "version", ver |-> "1.0", checksum |-> NoneTok,
      kwargs |-> [x \in {"url"} |-> "u"]],
     [directive |-> "extends", spec |-> [name |-> "b", ver |-> 0],
      kwargs |-> [x \in {"when", "ignore"} |-> IF x = "when" THEN FalseTok ELSE "i"]],
     [directive |-> "depends_on", spec |-> [name |-> "b", ver |-> 0], when |-> NoneTok,
      type |-> PyNone],
     [directive |-> "conflicts", conflict_spec |-> "%intel", when |-> "+x", msg |-> NoneTok],
     [directive |-> "provides", specs |-> <<[name |-> "mpi", ver |-> 0]>>, when |-> NoneTok],
     [directive |-> "patch", url_or_filename |-> "lib.patch", level |-> 1, when |-> NoneTok],
     [directive |-> "variant", name |-> "lib", default |-> PyBool("True"), values |-> PyNone],
     [directive |-> "resource", kwargs |-> [x \in {"name"} |-> "r"]]}

InitFacts == InitEngine /\ optimize = FALSE /\ arg = PyNone

DeclareFact ==
    /\ body < MaxFactBodies
    /\ Len(closures) < MaxFactCalls
    /\ \E call \in FactCalls : DirectiveCall(call)

DefineFacts ==
    /\ body < MaxFactBodies
    /\ \E bases \in BaseLists(1) : ClassStatement("a", TRUE, bases)

NextFacts == DeclareFact \/ DefineFacts

SpecFacts == InitFacts /\ [][NextFacts]_vars

\* SpecNest: class bodies that hold class statements.  The body of the inner
\* class statement is evaluated, and its class created, while the body of the
\* outer one is suspended; directive calls are made in the body being
\* evaluated.  No call raises and no base list is without an MRO.
NestCalls ==
    {[directive |-> "patch", url_or_filename |-> u, level |-> 1, when |-> NoneTok] :
        u \in {"lib.patch", "660.patch"}}

InitNest == InitEngine /\ optimize = FALSE /\ arg = PyNone

DeclareNest ==
    /\ LastBody < MaxNestBodies
    /\ Len(closures) < MaxNestCalls
    /\ \E call \in NestCalls : DirectiveCall(call)

\* A class statement met in the body being evaluated: its own body begins.
BeginNested ==
    /\ LastBody + 1 < MaxNestBodies
    /\ Len(nest) < MaxNest
    /\ nest' = Append(nest, body)
    /\ body' = LastBody + 1
    /\ UNCHANGED <<queue, closures, types, optimize, arg, canon_vars, merge_vars>>

DefineNest ==
    /\ LastBody < MaxNestBodies
    /\ \E bases \in BaseLists(1) : ClassStatement("a", TRUE, bases)

NextNest == DeclareNest \/ BeginNested \/ DefineNest

SpecNest == InitNest /\ [][NextNest]_vars

\* ------------------------------------------------------------------- claims
\* The descriptor fields of a type.
Fields(T) ==
    <<T.versions, T.dependencies, T.conflicts, T.provided, T.variants, T.patches,
      T.resources, T.extendees>>

Enum == {"build", "link", "run"}

Count(x, xs) == Cardinality({i \in DOMAIN xs : xs[i] = x})

\* Position of the first occurrence of x in xs (x occurs in xs).
Pos(x, xs) == CHOOSE i \in DOMAIN xs : xs[i] = x /\ \A j \in DOMAIN xs : xs[j] = x => i <= j

IsPrefix(xs, ys) == Len(xs) <= Len(ys) /\ \A i \in DOMAIN xs : xs[i] = ys[i]

\* C7: for every list or tuple of valid dependency-type strings (duplicates
\* allowed), canonical_deptype returns the sorted, duplicate-free sequence of
\* its distinct elements.
C7_SortedDuplicateFree ==
    (cd_out # NotCalled /\ cd_in.k \in {"list", "tuple"} /\ SeqToSet(cd_in.items) \subseteq Enum)
        => /\ cd_out.raised = ""
           /\ SeqToSet(cd_out.value.items) = SeqToSet(cd_in.items)
           /\ \A i, j \in DOMAIN cd_out.value.items :
                  i < j => StrRank(cd_out.value.items[i]) < StrRank(cd_out.value.items[j])

\* C8: canonical_deptype fails with the invalid-dependency-type error for
\* every string outside the enum (other than the literal 'all') and for every
\* collection, list or tuple or not, holding an element outside the enum; it
\* never returns such a value.
C8_InvalidAlwaysRejected ==
    (/\ cd_out # NotCalled
     /\ \/ (cd_in.k = "str" /\ cd_in.s \notin Enum \cup {"all"})
        \/ (cd_in.k \in {"list", "tuple", "set"} /\ ~(SeqToSet(cd_in.items) \subseteq Enum)))
        => cd_out.raised = "ValueError"

\* -------- claims about the construction engine (Spec)
\* The closures a class inherits: what its bases' lists hold.
Inherited(T) == UNION {SeqToSet(types[T.bases[i]].directives) : i \in DOMAIN T.bases}

\* The bases' lists, last declared base first, written out end to end.
RECURSIVE BasesEndToEnd(_, _)
BasesEndToEnd(T, n) ==
    IF n = 0 THEN <<>>
    ELSE types[T.bases[n]].directives \o BasesEndToEnd(T, n - 1)

\* xs without the later occurrences of each element.
FirstOccurrences(xs) ==
    LET keep == {i \in DOMAIN xs : \A j \in 1..(i - 1) : xs[j] # xs[i]}
        F[n \in 0..Len(xs)] ==
            IF n = 0 THEN <<>>
            ELSE IF n \in keep THEN Append(F[n - 1], xs[n]) ELSE F[n - 1]
    IN  F[Len(xs)]

\* The closures returned by the directive calls of the class statement that
\* made T, in call order.
StagedInBody(T) ==
    LET F[n \in 0..Len(closures)] ==
            IF n = 0 THEN <<>>
            ELSE IF closures[n].body = T.body THEN Append(F[n - 1], n) ELSE F[n - 1]
    IN  F[Len(closures)]

\* C3: the action list of a finalized type is the bases' lists in reverse
\* declaration order, de-duplicated keeping first occurrences, followed by the
\* actions staged during the type's own body in call order; replay follows
\* that list order, inherited actions before the type's own.
C3_ActionListOrder ==
    \A n \in DOMAIN types :
        LET T == types[n]
        IN  /\ T.directives = FirstOccurrences(BasesEndToEnd(T, Len(T.bases))) \o StagedInBody(T)
            /\ IsPrefix(T.log, T.directives)
            /\ (T.is_pkg /\ T.raised = "") => T.log = T.directives

\* The part of C3 that does not depend on whose calls filled the queue: the
\* inherited part first, in first-occurrence order of the reversed bases,
\* then every closure of the type's own body, in call order.
C3_OrderOfInheritedAndOwn ==
    \A n \in DOMAIN types :
        LET T == types[n]
            inh == FirstOccurrences(BasesEndToEnd(T, Len(T.bases)))
        IN  /\ IsPrefix(inh, T.directives)
            /\ IsPrefix(T.log, T.directives)
            /\ (T.is_pkg /\ T.raised = "") => T.log = T.directives
            /\ \A i \in DOMAIN StagedInBody(T) :
                   /\ Count(StagedInBody(T)[i], T.directives) = 1
                   /\ Pos(StagedInBody(T)[i], T.directives) > Len(inh)
                   /\ \A j \in DOMAIN StagedInBody(T) :
                          i < j => Pos(StagedInBody(T)[i], T.directives)
                                       < Pos(StagedInBody(T)[j], T.directives)

\* C6: the non-inherited part of a type's action list is exactly what the
\* directive calls of its own body enqueued, also after an earlier body was
\* abandoned on a declaration-time error, and no closure enqueued by another
\* body is replayed on the type unless it is inherited.
C6_OnlyOwnBodyActions ==
    \A n \in DOMAIN types :
        LET T == types[n]
        IN  /\ SelectSeq(T.directives, LAMBDA x : x \notin Inherited(T)) = StagedInBody(T)
            /\ \A i \in DOMAIN T.log :
                   T.log[i] \in Inherited(T) \/ closures[T.log[i]].body = T.body

\* The record a patch closure appends, and the condition it appends it under.
PatchOf(c) == [path_or_url |-> c.url_or_filename, level |-> c.level]

PatchCondition(T, c) == [name |-> T.name, c |-> IF c.when = NoneTok THEN "" ELSE c.when]

SameDirective(c, d) == [c EXCEPT !.body = 0] = [d EXCEPT !.body = 0]

\* The patch closures of T's list that append record p under condition cond.
PatchActions(T, cond, p) ==
    {i \in DOMAIN T.directives :
        LET c == closures[T.directives[i]]
        IN  c.kind = "patch" /\ PatchOf(c) = p /\ PatchCondition(T, c) = cond}

PatchesUnder(T, cond) == IF cond \in DOMAIN T.patches THEN T.patches[cond] ELSE <<>>

\* T inherits exactly one closure for a patch directive and its own body
\* declares the identical directive exactly once.
Redeclares(T, i, j) ==
    /\ T.is_pkg /\ T.raised = ""
    /\ i \in DOMAIN T.directives /\ j \in DOMAIN T.directives
    /\ T.directives[i] \in Inherited(T)
    /\ T.directives[j] \notin Inherited(T)
    /\ closures[T.directives[i]].kind = "patch"
    /\ SameDirective(closures[T.directives[i]], closures[T.directives[j]])
    /\ \A m \in DOMAIN T.directives :
           SameDirective(closures[T.directives[m]], closures[T.directives[i]]) => m \in {i, j}

\* C4 as claimed: when a subtype's body re-declares a directive identical to
\* an inherited one, the fact is recorded once in the subtype.
C4_RedeclaredAppliedOnce ==
    \A n \in DOMAIN types :
        LET T == types[n]
        IN  \A i, j \in DOMAIN T.directives :
                Redeclares(T, i, j) =>
                    LET c == closures[T.directives[i]]
                    IN  Count(PatchOf(c), PatchesUnder(T, PatchCondition(T, c))) = 1

\* C4 as amended: de-duplication is by closure identity and covers the
\* inherited part only.  No closure occurs twice in a type's list, every
\* closure the type's own body staged is in the list even when it is identical
\* in content to an inherited one, and each patch closure of the list appends
\* its record once, so a re-declared patch is recorded twice.
C4_RedeclaredAppliedAgain ==
    \A n \in DOMAIN types :
        LET T == types[n]
        IN  /\ \A i \in DOMAIN T.directives : Count(T.directives[i], T.directives) = 1
            /\ \A i \in DOMAIN StagedInBody(T) : Count(StagedInBody(T)[i], T.directives) = 1
            /\ (T.is_pkg /\ T.raised = "") =>
                   /\ \A i \in DOMAIN T.directives :
                          LET c == closures[T.directives[i]]
                          IN  c.kind = "patch" =>
                                  Count(PatchOf(c), PatchesUnder(T, PatchCondition(T, c)))
                                      = Cardinality(PatchActions(T, PatchCondition(T, c), PatchOf(c)))
                   /\ \A i, j \in DOMAIN T.directives :
                          Redeclares(T, i, j) =>
                              LET c == closures[T.directives[i]]
                              IN  Count(PatchOf(c), PatchesUnder(T, PatchCondition(T, c))) = 2

\* A subtype that re-declared an inherited patch holds the record twice.
C4_Witness ==
    \E n \in DOMAIN types :
        LET T == types[n]
        IN  \E i, j \in DOMAIN T.directives :
                /\ Redeclares(T, i, j)
                /\ Len(PatchesUnder(T, PatchCondition(T, closures[T.directives[i]]))) = 2

\* C5: a closure that two bases of T both inherited occurs once in T's list
\* and is replayed once on T, at the place of its first occurrence in the
\* bases' lists: before every closure added by a base that inherited it.
OwnOf(B) == SeqToSet(B.directives) \ Inherited(B)

SharedByBases(T, a) ==
    \E i, j \in DOMAIN T.bases :
        /\ i # j
        /\ a \in SeqToSet(types[T.bases[i]].directives) \ OwnOf(types[T.bases[i]])
        /\ a \in SeqToSet(types[T.bases[j]].directives) \ OwnOf(types[T.bases[j]])

C5_SharedAncestorOnce ==
    \A n \in DOMAIN types :
        LET T == types[n]
        IN  \A a \in 1..Len(closures) :
                SharedByBases(T, a) =>
                    /\ Count(a, T.directives) = 1
                    /\ Count(a, T.log) <= 1
                    /\ (T.is_pkg /\ T.raised = "") => Count(a, T.log) = 1
                    /\ Pos(a, T.directives)
                           = Cardinality({x \in Inherited(T) :
                                 Pos(x, BasesEndToEnd(T, Len(T.bases)))
                                     <= Pos(a, BasesEndToEnd(T, Len(T.bases)))})
                    /\ \A i \in DOMAIN T.bases :
                           a \in SeqToSet(types[T.bases[i]].directives) \ OwnOf(types[T.bases[i]])
                               => \A x \in OwnOf(types[T.bases[i]]) :
                                      Pos(a, T.directives) < Pos(x, T.directives)

\* A diamond: both bases of T added a closure of their own after the one they
\* share, and T replayed all of them.
C5_Witness ==
    \E n \in DOMAIN types :
        LET T == types[n]
        IN  /\ T.is_pkg /\ T.raised = "" /\ Len(T.bases) = 2
            /\ \E a \in 1..Len(closures) : SharedByBases(T, a) /\ Count(a, T.log) = 1
            /\ \A i \in DOMAIN T.bases : OwnOf(types[T.bases[i]]) # {}

\* -------- claims about depends_on and provides (SpecDeps)
\* The condition a `when` argument denotes on package T.
ConditionOn(T, when) ==
    [name |-> T.name, c |-> IF when \in {NoneTok, TrueTok} THEN "" ELSE when]

\* The normalized type set of a depends_on closure's `type` argument.
TypesOf(c) == IF c.type = PyNone THEN {"build", "link"} ELSE {c.type.s}

\* A replayed depends_on that declares a dependency of T on another package.
DeclaresDependency(T, c) ==
    c.kind = "depends_on" /\ c.when # FalseTok /\ c.spec.name # T.name

SamePair(T, c, d) ==
    c.spec.name = d.spec.name /\ ConditionOn(T, c.when) = ConditionOn(T, d.when)

HasDependency(T, c) ==
    /\ c.spec.name \in DOMAIN T.dependencies
    /\ ConditionOn(T, c.when) \in DOMAIN T.dependencies[c.spec.name]

\* C1: after depends_on directives were replayed on T, T.dependencies holds
\* one Dependency per declared (target name, condition) pair, its type set the
\* union of the normalized types of the directives of that pair, and nothing
\* for a pair that was not declared.
C1_OneDependencyPerPair ==
    \A n \in DOMAIN types :
        LET T == types[n]
            declared == {i \in DOMAIN T.log : DeclaresDependency(T, closures[T.log[i]])}
        IN  /\ \A i \in declared :
                   LET c == closures[T.log[i]]
                   IN  /\ HasDependency(T, c)
                       /\ T.dependencies[c.spec.name][ConditionOn(T, c.when)].type
                              = UNION {TypesOf(closures[T.log[j]]) :
                                          j \in {m \in declared : SamePair(T, c, closures[T.log[m]])}}
            /\ \A name \in DOMAIN T.dependencies :
                   \A cond \in DOMAIN T.dependencies[name] :
                       \E i \in declared :
                           /\ closures[T.log[i]].spec.name = name
                           /\ ConditionOn(T, closures[T.log[i]].when) = cond

\* C2: replaying depends_on for a pair not yet in T.dependencies succeeds and
\* stores a Dependency whose target is the declared one and whose type set is
\* the normalized `type`, {build, link} when `type` is omitted.
C2_NewDependencyStored ==
    \A n \in DOMAIN types :
        LET T == types[n]
        IN  (/\ T.log # <<>>
             /\ DeclaresDependency(T, closures[T.log[Len(T.log)]])
             /\ \A i \in 1..(Len(T.log) - 1) :
                    DeclaresDependency(T, closures[T.log[i]])
                        => ~SamePair(T, closures[T.log[i]], closures[T.log[Len(T.log)]]))
                => LET c == closures[T.log[Len(T.log)]]
                   IN  /\ T.raised = ""
                       /\ HasDependency(T, c)
                       /\ T.dependencies[c.spec.name][ConditionOn(T, c.when)].spec.name = c.spec.name
                       /\ T.dependencies[c.spec.name][ConditionOn(T, c.when)].spec.ver = c.spec.ver
                       /\ T.dependencies[c.spec.name][ConditionOn(T, c.when)].type = TypesOf(c)

\* C9: replaying a depends_on whose target names T itself, under any `when`
\* but False, fails with CircularReferenceError, and T.dependencies never gets
\* an entry for T's own name.
C9_SelfDependencyRejected ==
    \A n \in DOMAIN types :
        LET T == types[n]
        IN  T.is_pkg =>
                /\ T.name \notin DOMAIN T.dependencies
                /\ \A i \in DOMAIN T.log :
                       LET c == closures[T.log[i]]
                       IN  (c.kind = "depends_on" /\ c.when # FalseTok /\ c.spec.name = T.name)
                               => T.raised = "CircularReferenceError" /\ i = Len(T.log)

\* A package whose construction a conditional dependency on itself aborted.
C9_Witness ==
    \E n \in DOMAIN types :
        LET T == types[n]
        IN  /\ T.is_pkg /\ T.log # <<>>
            /\ closures[T.log[Len(T.log)]].kind = "depends_on"
            /\ closures[T.log[Len(T.log)]].when = "+x"
            /\ closures[T.log[Len(T.log)]].spec.name = T.name
            /\ T.raised = "CircularReferenceError"

\* The virtuals of a provides closure that come before the first one naming
\* the package itself: those the loop reaches.
RECURSIVE ReachedVirtuals(_, _)
ReachedVirtuals(T, specs) ==
    IF specs = <<>> \/ Head(specs).name = T.name THEN {}
    ELSE {Head(specs)} \cup ReachedVirtuals(T, Tail(specs))

ProviderCondition(T, c) == [name |-> T.name, c |-> IF c.when = NoneTok THEN "" ELSE c.when]

VirtualKey(v) == [k |-> "Spec", s |-> "", items |-> <<>>, name |-> v.name, ver |-> v.ver]

\* C10: a replayed provides fails with CircularReferenceError when one of its
\* virtuals names T; otherwise its condition is in the set T.provided[v] of
\* each of its virtuals.  T.provided[v] holds one copy of each declared
\* condition and nothing else, however often a declaration is repeated.
C10_ProvidesRecorded ==
    \A n \in DOMAIN types :
        LET T == types[n]
            provs == {i \in DOMAIN T.log : closures[T.log[i]].kind = "provides"}
        IN  T.is_pkg =>
                /\ \A i \in provs :
                       LET c == closures[T.log[i]]
                       IN  IF \E m \in DOMAIN c.specs : c.specs[m].name = T.name
                           THEN T.raised = "CircularReferenceError" /\ i = Len(T.log)
                           ELSE \A m \in DOMAIN c.specs :
                                    /\ VirtualKey(c.specs[m]) \in DOMAIN T.provided
                                    /\ ProviderCondition(T, c) \in T.provided[VirtualKey(c.specs[m])]
                /\ \A v \in DOMAIN T.provided :
                       T.provided[v] = {ProviderCondition(T, closures[T.log[i]]) :
                                           i \in {m \in provs :
                                                     \E x \in ReachedVirtuals(T, closures[T.log[m]].specs) :
                                                         VirtualKey(x) = v}}

\* A package that declared the same provides twice and holds the condition
\* once.
C10_Witness ==
    \E n \in DOMAIN types :
        LET T == types[n]
        IN  /\ T.is_pkg /\ T.raised = "" /\ Len(T.log) = 2
            /\ closures[T.log[1]].kind = "provides"
            /\ SameDirective(closures[T.log[1]], closures[T.log[2]])
            /\ \A v \in DOMAIN T.provided : Cardinality(T.provided[v]) = 1
            /\ DOMAIN T.provided # {}

\* -------- a failure during replay (Spec)
\* The closures of the engine's calls whose replay raises.
RaisesAtReplay(c) == c.kind = "variant" /\ ~identifier_match(c.name)

\* The actions a type added to what it inherited.
AddedBy(T) == SeqToSet(T.directives) \ Inherited(T)

\* C14: when an action raises while it is replayed on T, the replay stops at
\* that action (the first of T's list that raises), T never becomes usable (no
\* type has it as a base), the staging queue is empty once the class statement
\* is over, and no type finalized afterwards receives an action T added.
C14_ReplayFailureFatalToTypeOnly ==
    /\ [](\A n \in DOMAIN types :
             LET T == types[n]
                 bad == {i \in DOMAIN T.directives : RaisesAtReplay(closures[T.directives[i]])}
             IN  /\ (T.is_pkg /\ bad # {}) <=> T.raised # ""
                 /\ T.raised # "" =>
                        /\ T.log = SubSeq(T.directives, 1, CHOOSE i \in bad : \A j \in bad : i <= j)
                        /\ \A m \in DOMAIN types :
                               /\ n \notin SeqToSet(types[m].bases)
                               /\ m > n => AddedBy(T) \cap SeqToSet(types[m].directives) = {})
    /\ [][Len(types') > Len(types) => queue' = <<>>]_vars

\* A type whose replay was aborted before the last action of its list, and a
\* type finalized after it that replayed actions of its own.
C14_Witness ==
    \E n, m \in DOMAIN types :
        /\ types[n].raised # "" /\ Len(types[n].log) < Len(types[n].directives)
        /\ m > n /\ types[m].is_pkg /\ types[m].raised = "" /\ types[m].log # <<>>

\* -------- the directive call (SpecVer)
\* C18: a directive call that returns an action leaves every existing type as
\* it is, keeps the closures made before, and appends the new action to the
\* end of the staging queue; so the queue always holds the actions of the
\* calls made since it was last emptied, in call order.
C18_CallOnlyEnqueues ==
    /\ [][Len(closures') > Len(closures) =>
              /\ types' = types
              /\ Len(closures') = Len(closures) + 1
              /\ SubSeq(closures', 1, Len(closures)) = closures
              /\ queue' = Append(queue, Len(closures'))]_vars
    /\ [](\E k \in 0..Len(closures) : queue = [i \in 1..(Len(closures) - k) |-> k + i])

\* Two directive calls made after a package was finalized are queued in call
\* order and the package holds no fact.
C18_Witness ==
    /\ Len(types) = 1 /\ types[1].is_pkg /\ types[1].log = <<>>
    /\ Fields(types[1]) = <<EmptyMap, EmptyMap, EmptyMap, EmptyMap, EmptyMap, EmptyMap,
                            EmptyMap, EmptyMap>>
    /\ queue = <<1, 2>>

\* -------- Dependency.merge (SpecMerge)
PatchConditions == {[name |-> "b", c |-> ""], [name |-> "b", c |-> "+x"]}

\* The step is a successful self.merge(other).
Merged(self, other) ==
    /\ Len(hist') = Len(hist) + 1
    /\ hist'[Len(hist')] = [self |-> self, other |-> other, raised |-> ""]

\* C19: a merge of compatible targets leaves self.type the union of the two
\* type sets and, under every condition, self's patch list what it was
\* followed by what other's was (other's alone when self had none); no step
\* removes or reorders what a patch list holds, so the patches under a
\* condition stay in the order in which they were declared and merged.
C19_MergeConcatenates ==
    /\ [][\A self, other \in DOMAIN objs :
              Merged(self, other) =>
                  /\ objs'[self].type = objs[self].type \cup objs[other].type
                  /\ \A cond \in PatchConditions :
                         ListOf(heap', objs'[self], cond)
                             = ListOf(heap, objs[self], cond) \o ListOf(heap, objs[other], cond)
                  /\ DOMAIN objs'[self].patches
                         = (DOMAIN objs[self].patches) \cup (DOMAIN objs[other].patches)]_vars
    /\ [][\A d \in DOMAIN objs : \A cond \in PatchConditions :
              IsPrefix(ListOf(heap, objs[d], cond), ListOf(heap', objs'[d], cond))]_vars

\* An object that merged two others in turn holds, under one condition, its
\* own patch followed by theirs.
C19_Witness ==
    /\ Len(objs) = 3
    /\ hist = <<[self |-> 1, other |-> 2, raised |-> ""], [self |-> 1, other |-> 3, raised |-> ""]>>
    /\ \E cond \in PatchConditions :
           /\ Len(ListOf(heap, objs[1], cond)) = 3
           /\ Len(ListOf(heap, objs[2], cond)) = 1
           /\ Len(ListOf(heap, objs[3], cond)) = 1
           /\ ListOf(heap, objs[1], cond)[2] = ListOf(heap, objs[2], cond)[1]
           /\ ListOf(heap, objs[1], cond)[3] = ListOf(heap, objs[3], cond)[1]
    /\ objs[1].type = {"build", "link", "run"}

\* -------- variant inference (SpecVar)
\* True, False, or a string spelling true or false in any case.
BooleanLike(default) ==
    \/ default.k = "bool"
    \/ default.k = "str" /\ default.s \in {"true", "True", "TRUE", "false", "False", "FALSE"}

\* C17: with the variant call `arg`: a reserved name fails at the call and
\* enqueues nothing; otherwise the call succeeds and the closure, and the
\* definition every package stores on replay, hold the given values, or when
\* values is omitted the boolean domain (True, False) for a boolean-like
\* default and accept-anything otherwise, and the given default, or when
\* default is omitted False for the boolean domain and '' otherwise.
C17_VariantInference ==
    IF arg.name \in reserved_names
    THEN closures = <<>> /\ queue = <<>>
    ELSE /\ Len(types) = body \/ closures # <<>>
         /\ closures # <<>> =>
                LET c == closures[1]
                IN  /\ c.values = IF arg.values # PyNone THEN arg.values
                                  ELSE IF BooleanLike(arg.default) THEN TrueFalse
                                  ELSE PyLambda
                    /\ c.default = IF arg.default # PyNone THEN arg.default
                                   ELSE IF c.values = TrueFalse THEN PyBool("False")
                                   ELSE PyStr("")
                    /\ \A n \in DOMAIN types :
                           types[n].log # <<>> =>
                               /\ types[n].raised = ""
                               /\ types[n].variants
                                      = [x \in {arg.name} |->
                                            [name |-> arg.name, default |-> c.default,
                                             values |-> c.values]]

\* variant('foo', default=True) replayed on a package: domain (True, False),
\* default True.
C17_Witness ==
    /\ arg = [directive |-> "variant", name |-> "foo", default |-> PyBool("True"),
              values |-> PyNone]
    /\ \E n \in DOMAIN types :
           /\ "foo" \in DOMAIN types[n].variants
           /\ types[n].variants["foo"].values = TrueFalse
           /\ types[n].variants["foo"].default = PyBool("True")

\* -------- claims about resource (SpecRes)
\* The destination of the resource call under study ('' when not given).
DestinationOf(call) == Get(call.kwargs, "destination", Path(FALSE, <<>>))

\* The destination, joined to the sentinel stage root and normalized.
Normalized(dest) == normpath(join_path(test_path, dest))

\* The normalized path is the stage root or lies below it.
Nested(dest) == ~Normalized(dest).abs /\ Normalized(dest).parts[1] = "stage_folder_root"

\* The destinations the guard of the code turns down: absolute, or the name of
\* the sentinel root occurs nowhere in the normalized path.
TurnedDown(dest) ==
    \/ dest.abs
    \/ \A i \in DOMAIN Normalized(dest).parts : ~HasRootName(Normalized(dest).parts[i])

\* The types that replayed the resource closure.
Replayed(T) == T.is_pkg /\ \E i \in DOMAIN T.log : closures[T.log[i]].kind = "resource"

ResourceCondition(T, call) == [name |-> T.name, c |-> Get(call.kwargs, "when", "")]

ResourcesUnder(T, cond) == IF cond \in DOMAIN T.resources THEN T.resources[cond] ELSE <<>>

Recorded(T, call) ==
    \E i \in DOMAIN ResourcesUnder(T, ResourceCondition(T, call)) :
        ResourcesUnder(T, ResourceCondition(T, call))[i].destination = DestinationOf(call)

C12_AcceptedIffNested ==
    \A n \in DOMAIN types :
        LET T == types[n]
        IN  (Replayed(T) /\ ~DestinationOf(arg).abs)
                => IF Nested(DestinationOf(arg))
                   THEN T.raised = "" /\ Recorded(T, arg)
                   ELSE T.raised # "" /\ ~Recorded(T, arg)

\* -------- claims about replay on several types, extends and version
\* (SpecExt, SpecVer)
\* C13: two package types with the same action list (a subtype that declares
\* nothing and its base, or two siblings of one base) end up with the same
\* facts under the same conditions and the same outcome: each replay of an
\* inherited action does what the first one did.
C13_ReplayIdentical ==
    \A m, n \in DOMAIN types :
        (/\ types[m].is_pkg /\ types[n].is_pkg
         /\ types[m].directives = types[n].directives)
            => /\ Fields(types[m]) = Fields(types[n])
               /\ types[m].raised = types[n].raised

\* The bare package name as a spec string.
NameKey(spec) == [name |-> spec.name, ver |-> 0]

\* A blank package named as T.
Blank(T) ==
    [T EXCEPT !.raised = "", !.log = <<>>, !.versions = EmptyMap, !.conflicts = EmptyMap,
              !.dependencies = EmptyMap, !.extendees = EmptyMap, !.provided = EmptyMap,
              !.patches = EmptyMap, !.variants = EmptyMap, !.resources = EmptyMap]

\* C16: on a type that replays just extends(targetExpr, when=W, **options),
\* T.dependencies is what depends_on(targetExpr, when=W) leaves, and
\* T.extendees maps the package name of targetExpr to (the target constraint,
\* the options), the options without `when`.
C16_ExtendsEffect ==
    \A n \in DOMAIN types :
        LET T == types[n]
        IN  (T.is_pkg /\ Len(T.directives) = 1 /\ closures[T.directives[1]].kind = "extends")
                => LET call == closures[T.directives[1]].call
                       W == Get(call.kwargs, "when", NoneTok)
                   IN  /\ T.dependencies = _depends_on(Blank(T), call.spec, W, PyNone).dependencies
                       /\ DOMAIN T.extendees = {NameKey(call.spec)}
                       /\ T.extendees[NameKey(call.spec)][1] = SpecParse(call.spec)
                       /\ closures[T.extendees[NameKey(call.spec)][2].ref].kwargs
                              = Without(call.kwargs, "when")

\* C15: when T's list holds two depends_on for one (target, condition) pair
\* whose version constraints exclude each other, the replay fails at the
\* second with the constraint error, and T.dependencies holds the Dependency
\* of the first as it was: its own types, its own target.
C15_FailedMergeNoEffect ==
    \A n \in DOMAIN types :
        LET T == types[n]
        IN  (/\ T.is_pkg /\ Len(T.directives) = 2
             /\ closures[T.directives[1]].kind = "depends_on"
             /\ closures[T.directives[2]].kind = "depends_on"
             /\ SamePair(T, closures[T.directives[1]], closures[T.directives[2]])
             /\ closures[T.directives[1]].spec.ver # closures[T.directives[2]].spec.ver)
                => LET c == closures[T.directives[1]]
                   IN  /\ T.raised = "UnsatisfiableSpecError"
                       /\ T.log = T.directives
                       /\ DOMAIN T.dependencies = {c.spec.name}
                       /\ DOMAIN T.dependencies[c.spec.name] = {ConditionOn(T, c.when)}
                       /\ T.dependencies[c.spec.name][ConditionOn(T, c.when)].type = TypesOf(c)
                       /\ T.dependencies[c.spec.name][ConditionOn(T, c.when)].spec.ver = c.spec.ver

\* The version directives T replayed for identifier v, as positions of T.log.
VersionActions(T, v) ==
    {i \in DOMAIN T.log : closures[T.log[i]].kind = "version" /\ Version(closures[T.log[i]].ver) = v}

Last(S) == CHOOSE i \in S : \A j \in S : j <= i

\* The metadata a version call declares: its keywords, the checksum under
\* 'md5' when one is given.
DeclaredMetadata(call) ==
    IF call.checksum \in {NoneTok, ""} THEN call.kwargs
    ELSE [x \in (DOMAIN call.kwargs) \cup {"md5"} |->
             IF x = "md5" THEN call.checksum ELSE call.kwargs[x]]

\* C20: T.versions has an entry exactly for the identifiers of the version
\* directives replayed on T, and the entry is the metadata of the last of
\* them for that identifier, nothing of an earlier one merged in, with the
\* checksum under 'md5' whenever one was given.
C20_LastVersionWins ==
    \A n \in DOMAIN types :
        LET T == types[n]
        IN  T.is_pkg =>
                /\ DOMAIN T.versions
                       = {Version(closures[T.log[i]].ver) :
                             i \in {j \in DOMAIN T.log : closures[T.log[j]].kind = "version"}}
                /\ \A v \in DOMAIN T.versions :
                       LET id == T.log[Last(VersionActions(T, v))]
                       IN  /\ T.versions[v].ref = id
                           /\ closures[id].kwargs = DeclaredMetadata(closures[id].call)

\* A package that declared version 1.0 twice, first with a url and then with a
\* checksum, and holds the second's metadata only.
C20_Witness ==
    \E n \in DOMAIN types :
        LET T == types[n]
        IN  /\ T.is_pkg /\ T.raised = "" /\ Len(T.log) = 2
            /\ closures[T.log[1]].kind = "version" /\ closures[T.log[2]].kind = "version"
            /\ closures[T.log[1]].ver = closures[T.log[2]].ver
            /\ closures[T.log[1]].call.kwargs = [x \in {"url"} |-> "u"]
            /\ closures[T.log[2]].call.checksum = "abc"
            /\ closures[T.versions[Version(closures[T.log[2]].ver)].ref].kwargs
                   = [x \in {"md5"} |-> "abc"]

\* The conditions the patch actions of T's list resolve to.
DeclaredConditions(T) ==
    {PatchCondition(T, closures[T.directives[i]]) :
        i \in {j \in DOMAIN T.directives : closures[T.directives[j]].kind = "patch"}}

\* The patch records of the patch actions of T's list that resolve to cond,
\* in list order.
DeclaredUnder(T, cond) ==
    LET F[n \in 0..Len(T.directives)] ==
            IF n = 0 THEN <<>>
            ELSE LET c == closures[T.directives[n]]
                 IN  IF c.kind = "patch" /\ PatchCondition(T, c) = cond
                     THEN Append(F[n - 1], PatchOf(c)) ELSE F[n - 1]
    IN  F[Len(T.directives)]

\* C21: for every condition, the patches of a finalized type under it are the
\* patch records of the patch actions of the type's list that resolve to that
\* condition, in list order, inherited ones before the type's own; a patch
\* declared without `when` is under the condition "always, for this type",
\* and no condition without a patch action has a list.
C21_PatchesInActionListOrder ==
    \A n \in DOMAIN types :
        LET T == types[n]
        IN  (T.is_pkg /\ T.raised = "") =>
                /\ DOMAIN T.patches = DeclaredConditions(T)
                /\ \A cond \in DeclaredConditions(T) :
                       T.patches[cond] = DeclaredUnder(T, cond)
                /\ \A i, j \in DOMAIN T.directives :
                       (/\ closures[T.directives[i]].kind = "patch"
                        /\ closures[T.directives[j]].kind = "patch"
                        /\ T.directives[i] \in Inherited(T)
                        /\ T.directives[j] \notin Inherited(T)) => i < j
                /\ \A i \in DOMAIN T.directives :
                       LET c == closures[T.directives[i]]
                       IN  (c.kind = "patch" /\ c.when = NoneTok) =>
                               PatchOf(c) \in SeqToSet(T.patches[[name |-> T.name, c |-> ""]])

\* A package class that inherits a patch and declares two more, one of them
\* under the inherited patch's condition after it and one under another
\* condition.
C21_Witness ==
    \E n \in DOMAIN types :
        LET T == types[n]
            always == [name |-> T.name, c |-> ""]
            dated == [name |-> T.name, c |-> "@20170901"]
        IN  /\ T.is_pkg /\ T.raised = "" /\ T.bases # <<>>
            /\ Len(T.directives) = 3
            /\ T.directives[1] \in Inherited(T)
            /\ T.directives[2] \notin Inherited(T)
            /\ DOMAIN T.patches = {always, dated}
            /\ Len(T.patches[always]) = 2
            /\ T.patches[always][1] # T.patches[always][2]
            /\ T.patches[always][1] = PatchOf(closures[T.directives[1]])

\* The closures made by a depends_on call with when=False.
WhenFalse(i) ==
    /\ closures[i].call.directive = "depends_on"
    /\ closures[i].call.when = FalseTok

\* The names T.dependencies has an entry for only if some action of the
\* sequence ds other than those of when=False calls names them.
DeclaredElsewhere(T, ds) ==
    \A name \in DOMAIN T.dependencies :
        \E i \in DOMAIN ds :
            /\ closures[ds[i]].kind = "depends_on"
            /\ ~WhenFalse(ds[i])
            /\ SpecParse(closures[ds[i]].spec).name = name

\* C22, as stated: a depends_on call with when=False appends nothing to the
\* staging queue (no queue and no type's action list ever holds an action of
\* such a call), and no type gets an entry in dependencies because of it.
C22_FalseNeverEnqueued ==
    /\ \A i \in SeqToSet(queue) : ~WhenFalse(i)
    /\ \A n \in DOMAIN types :
           /\ \A i \in SeqToSet(types[n].directives) : ~WhenFalse(i)
           /\ types[n].is_pkg => DeclaredElsewhere(types[n], types[n].log)

\* C22, amended: a depends_on call with when=False appends one action to the
\* staging queue like any other call (the action is in the queue or in the
\* list of the type whose class statement took it), and replaying it does
\* nothing: it never fails, also when the target is the type's own package,
\* and the type has an entry in dependencies only for names that other
\* actions of its list declare.
C22_FalseEnqueuedAndInert ==
    /\ \A i \in DOMAIN closures :
           WhenFalse(i) =>
               \/ i \in SeqToSet(queue)
               \/ \E n \in DOMAIN types : i \in SeqToSet(types[n].directives)
    /\ \A n \in DOMAIN types :
           LET T == types[n]
           IN  T.is_pkg =>
                   /\ DeclaredElsewhere(T, T.log)
                   /\ (T.log # <<>> /\ WhenFalse(T.log[Len(T.log)])) => T.raised = ""

\* Package b's class declares depends_on('b', when=False) and nothing else
\* about dependencies, and a class derived from it inherits the action.
C22_Witness ==
    \E n, k \in DOMAIN types :
        /\ types[n].is_pkg /\ types[n].name = "b"
        /\ types[k].is_pkg /\ types[k].bases = <<n>>
        /\ Len(types[n].log) = 1
        /\ WhenFalse(types[n].log[1])
        /\ SpecParse(closures[types[n].log[1]].spec).name = "b"
        /\ types[n].log[1] \in SeqToSet(types[k].log)
        /\ types[n].raised = "" /\ types[k].raised = ""
        /\ types[n].dependencies = EmptyMap /\ types[k].dependencies = EmptyMap

\* The actions called on T that are decorated as affecting the field d.
Touching(T, d) ==
    {i \in DOMAIN T.log : d \in directive_dicts(closures[T.log[i]].kind)}

\* C23: every package type has, for every registered descriptor field name,
\* a container of its own, which is none of its bases' containers and was
\* empty before the type's first action ran: a field that no action called on
\* the type affects is empty, and the patches hold one record for each patch
\* action called on the type, its bases' records not being carried over.
C23_OwnEmptyContainers ==
    \A n \in DOMAIN types :
        LET T == types[n]
        IN  T.is_pkg =>
                /\ T.dicts = n
                /\ \A k \in SeqToSet(T.mro) \ {n} : types[k].dicts # T.dicts
                /\ \A d \in _directive_names :
                       Touching(T, d) = {} => T[d] = EmptyMap
                /\ \A cond \in DOMAIN T.patches \cup DeclaredConditions(T) :
                       Len(PatchesUnder(T, cond)) =
                           Cardinality({i \in Touching(T, "patches") :
                                           PatchCondition(T, closures[T.log[i]]) = cond})

\* A package class derived from a package class that has a patch: both hold
\* the one record, each in its own container, and the other fields of both
\* are empty.
C23_Witness ==
    \E n, k \in DOMAIN types :
        /\ types[n].is_pkg /\ types[k].is_pkg /\ types[k].bases = <<n>>
        /\ Len(types[n].log) = 1 /\ types[k].log = types[n].log
        /\ types[n].dicts = n /\ types[k].dicts = k
        /\ DOMAIN types[n].patches # {}
        /\ DOMAIN types[k].patches = {[x EXCEPT !.name = "b"] : x \in DOMAIN types[n].patches}
        /\ \A x \in DOMAIN types[n].patches :
               /\ Len(types[n].patches[x]) = 1
               /\ types[k].patches[[x EXCEPT !.name = "b"]] = types[n].patches[x]
        /\ types[k].versions = EmptyMap /\ types[k].resources = EmptyMap

\* The dicts a class holds by reference, as they are now: the kwargs of the
\* version closures under versions and of the extends closures under
\* extendees.
StoredKwargs(T, cs) ==
    <<[v \in DOMAIN T.versions |-> cs[T.versions[v].ref].kwargs],
      [e \in DOMAIN T.extendees |-> cs[T.extendees[e][2].ref].kwargs]>>

\* C24: no step changes a descriptor field of a class that already exists,
\* nor a value stored in one: a class statement adds a class and leaves the
\* fields of the others, and the dicts they hold, as they were.
C24_FinalizedTypesKeepFields ==
    [][\A n \in DOMAIN types :
           /\ n \in DOMAIN types'
           /\ Fields(types'[n]) = Fields(types[n])
           /\ StoredKwargs(types'[n], closures') = StoredKwargs(types[n], closures)]_vars

\* A package class that declared a version with a checksum and an extension,
\* and a class derived from it that replayed both actions afterwards.
C24_Witness ==
    \E n, k \in DOMAIN types :
        /\ types[n].is_pkg /\ types[k].is_pkg /\ types[k].bases = <<n>>
        /\ Len(types[n].log) = 2 /\ types[k].log = types[n].log
        /\ DOMAIN types[n].versions # {} /\ DOMAIN types[n].extendees # {}
        /\ \A v \in DOMAIN types[n].versions :
               closures[types[n].versions[v].ref].kwargs = [x \in {"md5"} |-> "abc"]
        /\ \A e \in DOMAIN types[n].extendees :
               closures[types[n].extendees[e][2].ref].kwargs = [x \in {"ignore"} |-> "i"]
        /\ types[k].versions = types[n].versions

\* The step is a merge call on self, and d, another object, is the other of
\* this call or was the other of an earlier successful merge call on self.
MergedBefore(self, d) ==
    /\ d # self
    /\ Len(hist') = Len(hist) + 1
    /\ hist'[Len(hist')].self = self
    /\ \/ hist'[Len(hist')].other = d
       \/ \E i \in DOMAIN hist : hist[i] = [self |-> self, other |-> d, raised |-> ""]

\* C25: merge never modifies other, neither during the call nor through a
\* later merge call on self: a merge call on self leaves the target, the types
\* and every patch list of the other of this call and of the others of
\* self's earlier merge calls as they were.
C25_MergeLeavesOtherAlone ==
    [][\A self, d \in DOMAIN objs :
           MergedBefore(self, d) =>
               /\ objs'[d].spec = objs[d].spec
               /\ objs'[d].type = objs[d].type
               /\ DOMAIN objs'[d].patches = DOMAIN objs[d].patches
               /\ \A cond \in PatchConditions :
                      ListOf(heap', objs'[d], cond) = ListOf(heap, objs[d], cond)]_vars

\* C26: also when a class statement is nested in the body of another, each
\* of the two types ends up with exactly the actions enqueued by its own
\* body, besides those it inherits, and with none enqueued by the other's.
C26_EachBodyItsOwnActions ==
    \A n \in DOMAIN types :
        LET T == types[n]
        IN  /\ \A i \in SeqToSet(T.directives) \ Inherited(T) : closures[i].body = T.body
            /\ \A i \in DOMAIN closures :
                   closures[i].body = T.body => i \in SeqToSet(T.directives)

====
